---- MODULE Spec2Model ----
(***************************************************************************)
(* Currency converter session (williamnjoku/final-project).                *)
(*                                                                         *)
(* Two builds share the rate pipeline: src/unnamed/part_000 (with the      *)
(* favourites feature and the hasRatesLoaded guard in                      *)
(* fetchRatesAndInitialize) and src/scripts/app.js (without either).       *)
(*                                                                         *)
(* JavaScript runs each stretch of code between two awaits atomically, so  *)
(* an action is one such stretch: the code from the completion of an       *)
(* awaited operation (HTTP response, timer, Firestore read or write) up to *)
(* the next await on an external completion.  Awaits on promises that are  *)
(* already settled (the return of an async function into its caller)       *)
(* continue in the same microtask checkpoint and belong to the same        *)
(* action.                                                                 *)
(*                                                                         *)
(* Numbers: the arithmetic of updateConversion is that of the Number type  *)
(* (binary64, round to nearest, ties to even), computed exactly on         *)
(* significands held as sequences of 15-bit limbs; exchange rates are      *)
(* integer-valued, so that dividing and multiplying by one needs a small   *)
(* divisor or factor only.  The historical rates are in hundredths and     *)
(* their percent change is computed on exact rationals.                    *)
(***************************************************************************)
EXTENDS Integers, Sequences, FiniteSets, TLC

\* ------------------------------------------------------------------------
\* Bounds of the model
\* ------------------------------------------------------------------------
MaxFetches == 2      \* fetchRates activations per session
MaxRetries == 3      \* largest `retries` argument the harness passes
MaxHist == 2         \* historical requests in flight at once
MaxToggles == 2      \* store operations toggleFavorite issues per session
MaxInputs == 2       \* input events per session

\* ------------------------------------------------------------------------
\* Program constants
\* ------------------------------------------------------------------------
API_BASE_CURRENCY == "USD"
DefaultRetries == 3
BackoffUnitMs == 1000

\* The codes of CURRENCIES the model selects among.
Codes == {"USD", "EUR", "NGN"}

Null == "null"
Uid == "u1"

\* ------------------------------------------------------------------------
\* Values
\* ------------------------------------------------------------------------
EmptyRates == [c \in {} |-> 0]

\* Bodies of successful /latest responses (data.rates): the quote service
\* normally omits the base; it may list it, and may omit a currency.
Payloads ==
    { ("EUR" :> 2) @@ ("NGN" :> 3),
      ("USD" :> 5) @@ ("EUR" :> 4) }

\* JSON.stringify / JSON.parse of a rates object: the text is the members
\* "key":value of the object.
JSONStringify(rates) == { <<c, rates[c]>> : c \in DOMAIN rates }

JSONParse(text) ==
    [c \in { m[1] : m \in text } |-> (CHOOSE m \in text : m[1] = c)[2]]

\* Faulty variant: the self-rate is not injected.
WithBaseDropped(rates, base) == rates

\* currencyRates = data.rates; currencyRates[data.base] = 1
WithBase(rates, base) ==
    [c \in DOMAIN rates \cup {base} |-> IF c = base THEN 1 ELSE rates[c]]

Pow2(n) == IF n = 0 THEN 1 ELSE IF n = 1 THEN 2 ELSE IF n = 2 THEN 4
           ELSE IF n = 3 THEN 8 ELSE 16

\* Faulty variant: the exponent counts attempts from 1.
BackoffDelayOffByOne(i) == Pow2(i + 1) * BackoffUnitMs

\* const delay = Math.pow(2, i) * 1000
BackoffDelay(i) == Pow2(i) * BackoffUnitMs

\* if (i === retries - 1)
IsLastAttempt(i, retries) == i = retries - 1

\* value.toFixed(digits) of the rational num/den >= 0, in units of
\* 10^-digits: nearest, ties to the larger.
Pow10(d) == IF d = 0 THEN 1 ELSE IF d = 2 THEN 100 ELSE 10000

ToFixed(num, den, digits) == (2 * num * Pow10(digits) + den) \div (2 * den)

\* ------------------------------------------------------------------------
\* The Number type: a finite positive value is m * 2^e, m a natural number
\* given by its limbs, least significant first.
\* ------------------------------------------------------------------------
LimbBase == 2 ^ 15

SignificandBits == 53

RECURSIVE ToBig(_)
ToBig(n) == IF n = 0 THEN <<>> ELSE <<n % LimbBase>> \o ToBig(n \div LimbBase)

RECURSIVE ToInt(_)
ToInt(big) ==
    IF big = <<>> THEN 0 ELSE Head(big) + LimbBase * ToInt(Tail(big))

RECURSIVE Trim(_)
Trim(big) ==
    IF big = <<>> THEN <<>>
    ELSE IF big[Len(big)] = 0 THEN Trim(SubSeq(big, 1, Len(big) - 1))
    ELSE big

RECURSIVE BitLenInt(_)
BitLenInt(n) == IF n = 0 THEN 0 ELSE 1 + BitLenInt(n \div 2)

BitLen(big) ==
    IF big = <<>> THEN 0
    ELSE 15 * (Len(big) - 1) + BitLenInt(big[Len(big)])

\* big * s + carry, for a factor s <= 20000
RECURSIVE MulS(_, _, _)
MulS(big, s, carry) ==
    IF big = <<>> THEN ToBig(carry)
    ELSE LET t == Head(big) * s + carry
         IN <<t % LimbBase>> \o MulS(Tail(big), s, t \div LimbBase)

\* quotient and remainder of big by a divisor s <= 2^15
RECURSIVE DivModS(_, _)
DivModS(big, s) ==
    IF big = <<>> THEN [q |-> <<>>, r |-> 0]
    ELSE LET hi == DivModS(Tail(big), s)
             t == hi.r * LimbBase + Head(big)
         IN [q |-> <<t \div s>> \o hi.q, r |-> t % s]

RECURSIVE ShiftLeft(_, _)
ShiftLeft(big, k) ==
    IF k = 0 \/ big = <<>> THEN big
    ELSE IF k >= 15 THEN ShiftLeft(<<0>> \o big, k - 15)
    ELSE MulS(big, 2 ^ k, 0)

\* big shifted right by k bits, and whether a bit shifted out was set
RECURSIVE ShiftRight(_, _)
ShiftRight(big, k) ==
    IF k = 0 \/ big = <<>> THEN [q |-> big, sticky |-> FALSE]
    ELSE IF k >= 15
         THEN LET rest == ShiftRight(Tail(big), k - 15)
              IN [q |-> rest.q, sticky |-> Head(big) # 0 \/ rest.sticky]
    ELSE LET d == DivModS(big, 2 ^ k)
         IN [q |-> Trim(d.q), sticky |-> d.r # 0]

RECURSIVE AddOne(_)
AddOne(big) ==
    IF big = <<>> THEN <<1>>
    ELSE IF Head(big) = LimbBase - 1 THEN <<0>> \o AddOne(Tail(big))
    ELSE <<Head(big) + 1>> \o Tail(big)

IsOdd(big) == big # <<>> /\ Head(big) % 2 = 1

Float(m, e) == [m |-> m, e |-> e]

\* The Number nearest to m * 2^e (plus a fraction of its last bit when
\* sticky), ties to even.
RoundToNearest(m, sticky, e) ==
    LET drop == BitLen(m) - SignificandBits
    IN IF drop <= 0 THEN Float(m, e)
       ELSE LET a == ShiftRight(m, drop - 1)
                b == DivModS(a.q, 2)
                q == Trim(b.q)
                up == b.r = 1 /\ (a.sticky \/ sticky \/ IsOdd(q))
            IN Float(IF up THEN AddOne(q) ELSE q, e + drop)

\* x / r and x * r for a Number x and an integer-valued Number r >= 1;
\* both are x itself when r is 1.
FloatDiv(x, r) ==
    IF r = 1 THEN x
    ELSE LET k == SignificandBits + 3 - BitLen(x.m) + BitLenInt(r)
             d == DivModS(ShiftLeft(x.m, k), r)
         IN RoundToNearest(Trim(d.q), d.r # 0, x.e - k)

FloatMul(x, r) ==
    IF r = 1 THEN x
    ELSE RoundToNearest(Trim(MulS(x.m, r, 0)), FALSE, x.e)

\* x.toFixed(digits), in units of 10^-digits: the integer n for which
\* n / 10^digits - x is closest to zero, the larger of two such; for a
\* small integer x that is x * 10^digits.
FloatToFixed(x, digits) ==
    IF x.e = 0 /\ Len(x.m) <= 1 THEN ToInt(x.m) * Pow10(digits)
    ELSE LET twice == MulS(x.m, 2 * Pow10(digits), 0)
             floor == IF x.e >= 0 THEN ShiftLeft(twice, x.e)
                      ELSE ShiftRight(twice, -x.e).q
         IN (ToInt(floor) + 1) \div 2

\* The cache document: rates is JSON text.
NoDoc == [exists |-> FALSE, rates |-> {}, base |-> API_BASE_CURRENCY]

Snapshot(rates) ==
    [exists |-> TRUE, rates |-> JSONStringify(rates), base |-> API_BASE_CURRENCY]

\* The document an earlier session may have left: nothing, or the snapshot
\* saveRatesCache wrote after one of its live fetches.
EarlierCaches ==
    {NoDoc} \cup { Snapshot(WithBase(p, API_BASE_CURRENCY)) : p \in Payloads }

\* $fromAmount.value and parseFloat of it.
AmountTexts ==
    {"", "abc", "-5", "0", "1", "3", "7abc", "0.225", "Infinity"}

\* An integer; a positive Number m * 2^e; NaN; Infinity.
Num(v) ==
    [kind |-> "num", sign |-> IF v < 0 THEN -1 ELSE IF v = 0 THEN 0 ELSE 1,
     m |-> ToBig(IF v < 0 THEN -v ELSE v), e |-> 0]

Dbl(m, e) == [kind |-> "num", sign |-> 1, m |-> m, e |-> e]

NaN == [kind |-> "nan", sign |-> 0, m |-> <<>>, e |-> 0]

Infinity == [kind |-> "inf", sign |-> 1, m |-> <<>>, e |-> 0]

\* The Number nearest to 0.225 is 8106479329266893 * 2^-55.
ParseFloat(text) ==
    CASE text = "-5" -> Num(-5)
      [] text = "0.225" -> Dbl(<<19661, 6553, 13107, 230>>, -55)
      [] text = "0" -> Num(0)
      [] text = "1" -> Num(1)
      [] text = "3" -> Num(3)
      [] text = "7abc" -> Num(7)
      [] text = "Infinity" -> Infinity
      [] OTHER -> NaN

VARIABLES
    build,          \* "favorites" (part_000) or "basic" (scripts/app.js)
    initPc,         \* position of initFirebase
    db,             \* whether db holds a Firestore handle
    userId,         \* Null or a uid
    isAuthReady,
    currencyRates,
    isOfflineMode,
    hasRatesLoaded,
    favoritesMap,   \* <<from, to>> -> document id
    fetches,        \* the fetchRates activations, in issue order
    cacheDoc,       \* the document at CACHE_DOC_PATH
    storeBy,        \* history: which activation last assigned currencyRates
    fromCurrency,
    toCurrency,
    fromAmount,
    inputCount,     \* history: input events handled so far
    sameAgain,      \* history: the last input event repeated the inputs of
                    \* the conversion before it
    rateDisplay,
    totalDisplay,
    lastConversion, \* history: outcome of the last updateConversion
    histReqs,       \* historical requests in flight, in issue order
    historicalRates,\* what $historicalRates shows
    lastBody,       \* history: the historical response handled last
    favDocs,        \* the user's favourites collection, by document id
    favoritesList,  \* the documents $favoritesList shows
    listening,      \* an onSnapshot listener is attached
    snapshotDue,    \* the collection changed since the last delivery
    toggleOps,      \* addDoc / deleteDoc operations in flight
    opLog,          \* history: store operations issued by toggleFavorite
    lastFavorite    \* history: how the last call of toggleFavorite or
                    \* listenForFavorites ended

vars ==
    <<build, initPc, db, userId, isAuthReady, currencyRates, isOfflineMode,
      hasRatesLoaded, favoritesMap, fetches, cacheDoc, storeBy, fromCurrency,
      toCurrency, fromAmount, inputCount, sameAgain, rateDisplay,
      totalDisplay, lastConversion, histReqs, historicalRates, lastBody,
      favDocs, favoritesList, listening, snapshotDue, toggleOps, opLog,
      lastFavorite>>

authVars == <<initPc, db, userId, isAuthReady>>
rateVars == <<currencyRates, isOfflineMode, hasRatesLoaded>>
fetchVars == <<fetches, cacheDoc, storeBy>>
inputVars == <<fromCurrency, toCurrency, fromAmount, inputCount, sameAgain>>
convVars == <<rateDisplay, totalDisplay, lastConversion>>
histVars == <<histReqs, historicalRates, lastBody>>
favVars ==
    <<favoritesMap, favDocs, favoritesList, listening, snapshotDue, toggleOps,
      opLog, lastFavorite>>
listenVars == <<listening, snapshotDue, lastFavorite>>

\* ------------------------------------------------------------------------
\* updateConversion
\* ------------------------------------------------------------------------
Blank == [kind |-> "blank", v |-> 0]
Shown(v) == [kind |-> "num", v |-> v]
ShownInfinity == [kind |-> "inf", v |-> 0]

\* !currencyRates[code]: the entry is missing or is 0
HasRate(rates, code) == code \in DOMAIN rates /\ rates[code] # 0

\* isNaN(amount) || amount <= 0
AmountRejected(amount) ==
    amount.kind = "nan" \/ (amount.kind = "num" /\ amount.sign <= 0)

\* Faulty variant: the loaded flag is not consulted.
ConversionOutcomeUnguarded(loaded, amount, rates, from, to) ==
    IF AmountRejected(amount) THEN "InvalidAmount"
    ELSE IF ~HasRate(rates, from) \/ ~HasRate(rates, to) THEN "MissingRate"
    ELSE "Ok"

\* The early returns of updateConversion, in the order of the code.
ConversionOutcome(loaded, amount, rates, from, to) ==
    IF ~loaded THEN "NotReady"
    ELSE IF AmountRejected(amount) THEN "InvalidAmount"
    ELSE IF ~HasRate(rates, from) \/ ~HasRate(rates, to) THEN "MissingRate"
    ELSE "Ok"

\* Faulty variant: the amount is not applied.
TotalTextOfOne(amount, rates, from, to) ==
    Shown(FloatToFixed(
              FloatMul(FloatDiv(Float(<<1>>, 0), rates[from]), rates[to]), 2))

\* result.toFixed(2) where result = amount / rates[from] * rates[to]
TotalText(amount, rates, from, to) ==
    IF amount.kind = "inf" THEN ShownInfinity
    ELSE LET baseValue == FloatDiv(Float(amount.m, amount.e), rates[from])
             result == FloatMul(baseValue, rates[to])
         IN Shown(FloatToFixed(result, 2))

\* rate.toFixed(4) where rate = rates[to] / rates[from]
RateText(rates, from, to) ==
    LET rate == FloatDiv(Float(ToBig(rates[to]), 0), rates[from])
    IN Shown(FloatToFixed(rate, 4))

\* ------------------------------------------------------------------------
\* fetchHistoricalRates
\* ------------------------------------------------------------------------
Pt(d, r) == [date |-> d, rates |-> [c \in Codes |-> r]]
Gap(d) == [date |-> d, rates |-> EmptyRates]

\* Bodies of successful date-range responses (data.rates), in the order
\* the response lists its dates; rates in hundredths.
HistSeries ==
    { <<>>,
      <<Pt(1, 110)>>,
      <<Gap(1)>>,
      <<Pt(1, 110), Pt(2, 120)>>,
      <<Pt(2, 120), Pt(1, 110)>>,
      <<Pt(1, 120), Gap(2), Pt(3, 120)>>,
      <<Gap(1), Pt(2, 110)>>,
      <<Pt(2, 120), Pt(3, 100), Gap(4), Pt(1, 110)>> }

NoTrend(kind, from, to, count, newest) ==
    [kind |-> kind, from |-> from, to |-> to, count |-> count,
     startDate |-> 0, endDate |-> 0, startRate |-> 0, endRate |-> 0,
     pct |-> 0, dir |-> "none", newest |-> newest]

HistBlank == NoTrend("blank", "", "", 0, TRUE)

\* for (const date in data.rates) if (data.rates[date][to]) rates.push(...)
RECURSIVE FilterSeries(_, _)
FilterSeries(series, to) ==
    IF series = <<>> THEN <<>>
    ELSE LET e == Head(series)
             rest == FilterSeries(Tail(series), to)
         IN IF HasRate(e.rates, to)
            THEN <<[date |-> e.date, rate |-> e.rates[to]]>> \o rest
            ELSE rest

\* rates.sort((a, b) => new Date(a.date) - new Date(b.date))
RECURSIVE InsertByDate(_, _)
InsertByDate(p, sorted) ==
    IF sorted = <<>> THEN <<p>>
    ELSE IF p.date < Head(sorted).date THEN <<p>> \o sorted
    ELSE <<Head(sorted)>> \o InsertByDate(p, Tail(sorted))

\* Faulty variant: the points stay in the order of the response.
SortByDateUnsorted(points) == points

RECURSIVE SortByDate(_)
SortByDate(points) ==
    IF points = <<>> THEN <<>>
    ELSE InsertByDate(points[Len(points)],
                      SortByDate(SubSeq(points, 1, Len(points) - 1)))

Abs(x) == IF x < 0 THEN -x ELSE x

\* ((change / startRate) * 100).toFixed(2), in hundredths of a percent
PercentageChange(startRate, endRate) ==
    LET change == endRate - startRate
        mag == ToFixed(Abs(change) * 100, startRate, 2)
    IN IF change < 0 THEN -mag ELSE mag

\* Faulty variant: no change counts as an increase.
TrendTextNeverStable(change) ==
    IF change >= 0 THEN "Increased" ELSE "Decreased"

TrendText(change) ==
    IF change > 0 THEN "Increased"
    ELSE IF change < 0 THEN "Decreased" ELSE "Stable"

\* Faulty variant: one point is taken for a trend.
TooFewPointsNone(n) == n < 1

\* if (rates.length < 2)
TooFewPoints(n) == n < 2

\* What $historicalRates shows once the response body `series` is in.
Analyze(series, from, to, newest) ==
    IF series = <<>> THEN NoTrend("nodata", from, to, 0, newest)
    ELSE LET rates == SortByDate(FilterSeries(series, to))
             n == Len(rates)
         IN IF TooFewPoints(n)
            THEN NoTrend("insufficient", from, to, n, newest)
            ELSE [kind |-> "trend", from |-> from, to |-> to, count |-> n,
                  startDate |-> rates[1].date, endDate |-> rates[n].date,
                  startRate |-> rates[1].rate, endRate |-> rates[n].rate,
                  pct |-> PercentageChange(rates[1].rate, rates[n].rate),
                  dir |-> TrendText(rates[n].rate - rates[1].rate),
                  newest |-> newest]

\* A historical response: the parsed body, or none when the request failed.
NoBody == [ok |-> FALSE, series |-> <<>>]

Body(series) == [ok |-> TRUE, series |-> series]

\* A newer trigger supersedes the requests still in flight.
Superseded(reqs) ==
    [k \in 1..Len(reqs) |-> [reqs[k] EXCEPT !.newest = FALSE]]

\* Faulty variant: the loaded flag is not consulted.
NotOnlineFlagOnly(loaded, offline) == offline

\* if (!hasRatesLoaded || isOfflineMode)
NotOnline(loaded, offline) == ~loaded \/ offline

\* fetchHistoricalRates(from, to) up to its await fetch(url)
CallFetchHistoricalRates(loaded, offline, from, to) ==
    IF NotOnline(loaded, offline)
    THEN /\ historicalRates' = NoTrend("offline", from, to, 0, TRUE)
         /\ histReqs' = Superseded(histReqs)
         /\ UNCHANGED lastBody
    ELSE /\ Len(histReqs) < MaxHist
         /\ histReqs' = Append(Superseded(histReqs),
                               [from |-> from, to |-> to, newest |-> TRUE])
         /\ UNCHANGED <<historicalRates, lastBody>>

\* updateConversion(), reading the session state and the inputs given as
\* arguments (the caller may have assigned them in the same step).
UpdateConversion(loaded, rates, offline, text, from, to) ==
    LET amount == ParseFloat(text)
        outcome == ConversionOutcome(loaded, amount, rates, from, to)
    IN /\ lastConversion' = outcome
       /\ CASE outcome = "NotReady" ->
                 UNCHANGED <<rateDisplay, totalDisplay, histVars>>
            [] outcome \in {"InvalidAmount", "MissingRate"} ->
                 /\ totalDisplay' = Shown(0)
                 /\ UNCHANGED <<rateDisplay, histVars>>
            [] OTHER ->
                 /\ rateDisplay' = RateText(rates, from, to)
                 /\ totalDisplay' = TotalText(amount, rates, from, to)
                 /\ IF ~offline
                    THEN CallFetchHistoricalRates(loaded, offline, from, to)
                    ELSE /\ historicalRates' =
                               NoTrend("offline", from, to, 0, TRUE)
                         /\ histReqs' = Superseded(histReqs)
                         /\ UNCHANGED lastBody

CallUpdateConversion(loaded, rates, offline) ==
    UpdateConversion(loaded, rates, offline, fromAmount, fromCurrency,
                     toCurrency)

\* ------------------------------------------------------------------------
\* listenForFavorites
\* ------------------------------------------------------------------------
\* Faulty variant: only the auth flag is tested.
HasIdentityAuthOnly(ready, uid, database) == ready

\* if (!isAuthReady || !userId || !db) return
HasIdentity(ready, uid, database) == ready /\ uid # Null /\ database

\* listenForFavorites(): attaches the onSnapshot listener, whose first
\* snapshot is delivered later.
CallListenForFavorites(ready, uid, database) ==
    IF HasIdentity(ready, uid, database)
    THEN /\ listening' = TRUE
         /\ snapshotDue' = TRUE
         /\ lastFavorite' = "listenAttached"
    ELSE /\ UNCHANGED <<listening, snapshotDue>>
         /\ lastFavorite' = "listenRefused"

\* ------------------------------------------------------------------------
\* fetchRates, saveRatesCache, loadRatesCache
\* ------------------------------------------------------------------------
IdleFetch ==
    [pc |-> "idle", i |-> 0, retries |-> 0, attempts |-> 0, delays |-> <<>>,
     reads |-> 0, writes |-> 0, result |-> FALSE, alert |-> FALSE,
     doc |-> NoDoc, got |-> "none", then |-> "none"]

FetchIds == 1..MaxFetches

\* The next activation: activations are numbered in the order issued.
NextFetchId(f) ==
    /\ fetches[f].pc = "idle"
    /\ \A g \in FetchIds : g < f => fetches[g].pc # "idle"

\* What the caller of fetchRates does once it has returned `success`:
\* fetchRatesAndInitialize calls updateConversion on success ...
AfterFetchConversion(then, success, loaded, rates, offline) ==
    IF success /\ then # "direct"
    THEN CallUpdateConversion(loaded, rates, offline)
    ELSE UNCHANGED <<convVars, histVars>>

\* ... and initFirebase goes on after `await fetchRatesAndInitialize()`.
AfterFetchInit(then, returned) ==
    /\ isAuthReady' = (isAuthReady \/ (returned /\ then = "noconfig"))
    /\ IF returned /\ then = "auth" /\ build = "favorites"
       THEN CallListenForFavorites(isAuthReady, userId, db)
       ELSE UNCHANGED listenVars
    /\ UNCHANGED <<build, initPc, db, userId, inputVars, favoritesMap,
                   favDocs, favoritesList, toggleOps, opLog>>

\* Faulty variant: the snapshot is never written.
SkipsCacheWriteAlways(database, rates) == TRUE

\* saveRatesCache(): if (!db || Object.keys(currencyRates).length === 0) return
SkipsCacheWrite(database, rates) == ~database \/ DOMAIN rates = {}

\* Faulty variant: the body of the loop runs once whatever `retries` is.
LoopEnteredAlways(retries) == TRUE

\* for (let i = 0; i < retries; i++): the test before the first pass.
LoopEntered(retries) == 0 < retries

\* fetchRates(base, retries) up to its first await.
CallFetchRates(f, retries, then) ==
    /\ NextFetchId(f)
    /\ isOfflineMode' = FALSE
    /\ IF LoopEntered(retries)
       THEN /\ fetches' = [fetches EXCEPT ![f] =
                 [IdleFetch EXCEPT !.pc = "fetching", !.retries = retries,
                                   !.attempts = 1, !.then = then]]
            /\ UNCHANGED <<convVars, histVars>>
       ELSE /\ fetches' = [fetches EXCEPT ![f] =
                 [IdleFetch EXCEPT !.pc = "done", !.retries = retries,
                                   !.then = then]]
            /\ AfterFetchConversion(then, FALSE, hasRatesLoaded,
                                    currencyRates, FALSE)
    /\ UNCHANGED <<currencyRates, hasRatesLoaded, cacheDoc, storeBy>>

\* Faulty variant: the entries of the previous store that the new object
\* lacks are kept.
AssignRatesMerged(previous, fresh) ==
    [c \in DOMAIN previous \cup DOMAIN fresh |->
        IF c \in DOMAIN fresh THEN fresh[c] ELSE previous[c]]

\* currencyRates = data.rates (line 138), currencyRates = JSON.parse(...)
\* (line 115): the variable is bound to the new object.
AssignRates(previous, fresh) == fresh

\* The response of attempt i is ok and its body parses: lines 134-145.
LiveAttemptSucceeds(f, payload) ==
    LET rates == AssignRates(currencyRates,
                             WithBase(payload, API_BASE_CURRENCY))
        skip == SkipsCacheWrite(db, rates)
        rec == fetches[f]
    IN /\ rec.pc = "fetching"
       /\ currencyRates' = rates
       /\ hasRatesLoaded' = TRUE
       /\ storeBy' = [by |-> f, source |-> "live"]
       /\ UNCHANGED <<isOfflineMode, cacheDoc>>
       /\ IF skip
          THEN /\ fetches' = [fetches EXCEPT ![f].pc = "done",
                                             ![f].result = TRUE]
               /\ AfterFetchConversion(rec.then, TRUE, TRUE, rates,
                                       isOfflineMode)
          ELSE /\ fetches' = [fetches EXCEPT ![f].pc = "saving",
                                             ![f].writes = @ + 1,
                                             ![f].doc = Snapshot(rates)]
               /\ UNCHANGED <<convVars, histVars>>
       /\ AfterFetchInit(rec.then, skip)

\* Faulty variant: the error of setDoc reaches the caller.
ReturnsAfterSaveSurfaced(written) == written

\* saveRatesCache catches the error of setDoc (lines 104-106) and returns;
\* fetchRates goes on to `return true` (line 145) either way.
ReturnsAfterSave(written) == TRUE

\* setDoc settles: the write reached the store or failed (the error is
\* logged); saveRatesCache returns and fetchRates returns true.
CacheWriteSettles(f, written) ==
    LET rec == fetches[f]
        success == ReturnsAfterSave(written)
    IN /\ rec.pc = "saving"
       /\ cacheDoc' = IF written THEN rec.doc ELSE cacheDoc
       /\ fetches' = [fetches EXCEPT ![f].pc = "done", ![f].result = success]
       /\ UNCHANGED <<rateVars, storeBy>>
       /\ AfterFetchConversion(rec.then, success, hasRatesLoaded,
                               currencyRates, isOfflineMode)
       /\ AfterFetchInit(rec.then, TRUE)

\* Attempt i fails (network error, status not ok, or a body that does not
\* parse): the catch block, lines 146-162.
LiveAttemptFails(f) ==
    LET rec == fetches[f]
    IN /\ rec.pc = "fetching"
       /\ UNCHANGED <<currencyRates, isOfflineMode, cacheDoc, storeBy>>
       /\ IF IsLastAttempt(rec.i, rec.retries)
          THEN IF db
               THEN \* loadRatesCache awaits getDoc
                    /\ fetches' = [fetches EXCEPT ![f].pc = "cacheRead",
                                                  ![f].reads = @ + 1]
                    /\ UNCHANGED hasRatesLoaded
                    /\ UNCHANGED <<convVars, histVars>>
                    /\ AfterFetchInit(rec.then, FALSE)
               ELSE \* loadRatesCache returns false at once
                    /\ fetches' = [fetches EXCEPT ![f].pc = "done",
                                                  ![f].result = FALSE,
                                                  ![f].alert = TRUE]
                    /\ hasRatesLoaded' = FALSE
                    /\ AfterFetchConversion(rec.then, FALSE, FALSE,
                                            currencyRates, isOfflineMode)
                    /\ AfterFetchInit(rec.then, TRUE)
          ELSE /\ fetches' = [fetches EXCEPT
                    ![f].pc = "delay",
                    ![f].delays = Append(@, BackoffDelay(rec.i))]
               /\ UNCHANGED hasRatesLoaded
               /\ UNCHANGED <<convVars, histVars>>
               /\ AfterFetchInit(rec.then, FALSE)

\* The backoff timer fires: i++, the loop test, the next await fetch(url).
BackoffElapses(f) ==
    LET rec == fetches[f]
    IN /\ rec.pc = "delay"
       /\ UNCHANGED <<rateVars, cacheDoc, storeBy>>
       /\ IF rec.i + 1 < rec.retries
          THEN /\ fetches' = [fetches EXCEPT ![f].pc = "fetching",
                                             ![f].i = @ + 1,
                                             ![f].attempts = @ + 1]
               /\ UNCHANGED <<convVars, histVars>>
               /\ AfterFetchInit(rec.then, FALSE)
          ELSE \* the loop ends: return false (line 164)
               /\ fetches' = [fetches EXCEPT ![f].pc = "done",
                                             ![f].i = @ + 1,
                                             ![f].result = FALSE]
               /\ AfterFetchConversion(rec.then, FALSE, hasRatesLoaded,
                                       currencyRates, isOfflineMode)
               /\ AfterFetchInit(rec.then, TRUE)

\* Faulty variant: the cache load leaves the offline flag as it was.
OfflineAfterCacheLoadUnset(offline) == offline

\* loadRatesCache: isOfflineMode = true
OfflineAfterCacheLoad(offline) == TRUE

\* getDoc settles with the document (found), or without one / with an
\* error; loadRatesCache returns and fetchRates finishes, lines 150-157.
CacheReadSettles(f, delivered) ==
    LET rec == fetches[f]
        found == delivered /\ cacheDoc.exists
        rates == IF found
                 THEN AssignRates(currencyRates, JSONParse(cacheDoc.rates))
                 ELSE currencyRates
        offline == IF found THEN OfflineAfterCacheLoad(isOfflineMode)
                   ELSE isOfflineMode
    IN /\ rec.pc = "cacheRead"
       /\ currencyRates' = rates
       /\ isOfflineMode' = offline
       /\ hasRatesLoaded' = found
       /\ storeBy' = IF found THEN [by |-> f, source |-> "cache"] ELSE storeBy
       /\ fetches' = [fetches EXCEPT
              ![f].pc = "done", ![f].result = found, ![f].alert = ~found,
              ![f].got = IF found THEN "snapshot" ELSE "nothing"]
       /\ UNCHANGED cacheDoc
       /\ AfterFetchConversion(rec.then, found, found, rates, offline)
       /\ AfterFetchInit(rec.then, TRUE)

\* fetchRates called on its own, with any retries argument.
FetchRatesDirect(f, retries) ==
    /\ CallFetchRates(f, retries, "direct")
    /\ UNCHANGED <<build, authVars, inputVars, favVars>>

\* ------------------------------------------------------------------------
\* initFirebase, fetchRatesAndInitialize
\* ------------------------------------------------------------------------
\* if (hasRatesLoaded) return   (part_000 only)
AlreadyLoaded == build = "favorites" /\ hasRatesLoaded

\* await fetchRatesAndInitialize(), with what follows it when it returns
\* at once.
CallFetchRatesAndInitialize(then, ready, uid, database) ==
    IF AlreadyLoaded
    THEN /\ UNCHANGED <<rateVars, fetchVars, convVars, histVars>>
         /\ IF then = "auth"
            THEN CallListenForFavorites(ready, uid, database)
            ELSE UNCHANGED listenVars
    ELSE /\ \E f \in FetchIds : CallFetchRates(f, DefaultRetries, then)
         /\ UNCHANGED listenVars

\* initFirebase() up to its first await.  config: "empty" (no Firebase
\* config), "throws" (initializeApp or getFirestore throws), "ok".
InitFirebase(config) ==
    /\ initPc = "start"
    /\ UNCHANGED <<build, userId, inputVars, favoritesMap, favDocs,
                   favoritesList, toggleOps, opLog>>
    /\ CASE config = "empty" ->
              /\ initPc' = "apiOnly"
              /\ UNCHANGED <<db, isAuthReady>>
              /\ CallFetchRatesAndInitialize("noconfig", isAuthReady,
                                             userId, db)
         [] config = "throws" ->
              /\ initPc' = "apiOnly"
              /\ isAuthReady' = TRUE
              /\ UNCHANGED db
              /\ CallFetchRatesAndInitialize("catch", TRUE, userId, db)
         [] OTHER ->
              /\ initPc' = "signingIn"
              /\ db' = TRUE
              /\ UNCHANGED <<isAuthReady, rateVars, fetchVars, convVars,
                             histVars, listenVars>>

\* signInAnonymously / signInWithCustomToken settles: the listener is
\* registered, or the catch block runs.
SignInSettles(ok) ==
    /\ initPc = "signingIn"
    /\ UNCHANGED <<build, db, userId, inputVars, favoritesMap, favDocs,
                   favoritesList, toggleOps, opLog>>
    /\ IF ok
       THEN /\ initPc' = "observing"
            /\ UNCHANGED <<isAuthReady, rateVars, fetchVars, convVars,
                           histVars, listenVars>>
       ELSE /\ initPc' = "apiOnly"
            /\ isAuthReady' = TRUE
            /\ CallFetchRatesAndInitialize("catch", TRUE, userId, db)

\* The onAuthStateChanged callback, lines 486-498.
AuthStateChanged(user) ==
    /\ initPc = "observing"
    /\ userId' = user
    /\ isAuthReady' = TRUE
    /\ CallFetchRatesAndInitialize("auth", TRUE, user, db)
    /\ UNCHANGED <<build, initPc, db, inputVars, favoritesMap, favDocs,
                   favoritesList, toggleOps, opLog>>

\* ------------------------------------------------------------------------
\* Input events
\* ------------------------------------------------------------------------
\* Faulty variant: a conversion marks the rates as not loaded.
SharedStateDropped ==
    /\ hasRatesLoaded' = FALSE
    /\ UNCHANGED <<currencyRates, isOfflineMode, favoritesMap>>

\* updateConversion assigns none of currencyRates, isOfflineMode,
\* hasRatesLoaded and favoritesMap, nor do the functions it calls.
SharedStateKept == UNCHANGED <<rateVars, favoritesMap>>

\* An event handler that ends in updateConversion(), having set the inputs.
InputThenConvert(text, from, to) ==
    /\ inputCount < MaxInputs
    /\ inputCount' = inputCount + 1
    /\ sameAgain' = (/\ lastConversion # "none"
                     /\ text = fromAmount
                     /\ from = fromCurrency
                     /\ to = toCurrency)
    /\ fromAmount' = text
    /\ fromCurrency' = from
    /\ toCurrency' = to
    /\ UpdateConversion(hasRatesLoaded, currencyRates, isOfflineMode, text,
                        from, to)
    /\ SharedStateKept
    /\ UNCHANGED <<build, authVars, fetchVars, favDocs, favoritesList,
                   listenVars, toggleOps, opLog>>

\* 'input' on $fromAmount
AmountInput(text) == InputThenConvert(text, fromCurrency, toCurrency)

\* 'change' on $fromCurrency, on $toCurrency
FromChange(code) == InputThenConvert(fromAmount, code, toCurrency)

ToChange(code) == InputThenConvert(fromAmount, fromCurrency, code)

\* 'click' on #switch-currency
SwitchCurrencies == InputThenConvert(fromAmount, toCurrency, fromCurrency)

\* 'click' on an entry of $favoritesList
LoadFavoritePair(d) ==
    /\ d \in favoritesList
    /\ InputThenConvert(fromAmount, d.from, d.to)

\* Faulty variant: a failed request is shown as a response without data.
HistFailureAsEmpty(from, to, newest) ==
    NoTrend("nodata", from, to, 0, newest)

\* The catch block of fetchHistoricalRates, lines 224-226.
HistFailure(from, to, newest) == NoTrend("error", from, to, 0, newest)

\* The response of a historical request arrives: the body `series`, or a
\* failure (network error, status not ok, unparsable body).
HistoricalSettles(k, ok, series) ==
    /\ k \in 1..Len(histReqs)
    /\ LET req == histReqs[k]
       IN historicalRates' =
              IF ok THEN Analyze(series, req.from, req.to, req.newest)
              ELSE HistFailure(req.from, req.to, req.newest)
    /\ lastBody' = IF ok THEN Body(series) ELSE NoBody
    /\ histReqs' = [j \in 1..(Len(histReqs) - 1) |->
                       IF j < k THEN histReqs[j] ELSE histReqs[j + 1]]
    /\ UNCHANGED <<build, authVars, rateVars, fetchVars, inputVars, convVars,
                   favVars>>

\* fetchHistoricalRates called on its own, in whatever state the session is.
FetchHistoricalRatesDirect(from, to) ==
    /\ CallFetchHistoricalRates(hasRatesLoaded, isOfflineMode, from, to)
    /\ UNCHANGED <<build, authVars, rateVars, fetchVars, inputVars, convVars,
                   favVars>>

\* ------------------------------------------------------------------------
\* Favourites
\* ------------------------------------------------------------------------
DocIds == 1..MaxToggles

FreeDoc == [state |-> "free", from |-> "", to |-> ""]

LiveDocs ==
    { [id |-> id, from |-> favDocs[id].from, to |-> favDocs[id].to] :
        id \in { i \in DocIds : favDocs[i].state = "live" } }

\* const pair = `${from}/${to}`
PairKey(from, to) == <<from, to>>

\* Faulty variant: favoritesMap.clear() is missing, so the keys of the
\* earlier snapshots stay.
ProjectionsKept(docs) ==
    LET keys == { PairKey(d.from, d.to) : d \in docs }
    IN { m \in [keys \cup DOMAIN favoritesMap -> DocIds] :
           \A key \in DOMAIN m :
              IF key \in keys
              THEN \E d \in docs :
                      d.id = m[key] /\ PairKey(d.from, d.to) = key
              ELSE m[key] = favoritesMap[key] }

\* The projections snapshot.forEach can build from the documents `docs`:
\* of several documents with one pair the last one listed stays.
Projections(docs) ==
    LET keys == { PairKey(d.from, d.to) : d \in docs }
    IN { m \in [keys -> DocIds] :
           \A key \in keys :
              \E d \in docs : d.id = m[key] /\ PairKey(d.from, d.to) = key }

\* The onSnapshot callback, lines 291-329.
SnapshotDelivered ==
    /\ listening
    /\ snapshotDue
    /\ snapshotDue' = FALSE
    /\ favoritesList' = LiveDocs
    /\ favoritesMap' \in Projections(LiveDocs)
    /\ UNCHANGED <<build, authVars, rateVars, fetchVars, inputVars, convVars,
                   histVars, favDocs, listening, toggleOps, opLog,
                   lastFavorite>>

IssueOp(op) ==
    /\ Len(opLog) < MaxToggles
    /\ toggleOps' = Append(toggleOps, op)

\* Faulty variant: the projection is not consulted.
ToggleChoosesAlwaysAdd(map, from, to) ==
    [kind |-> "add", id |-> 0, from |-> from, to |-> to]

\* if (favoritesMap.has(pair)) deleteFavoritePair(favoritesMap.get(pair))
\* else saveFavoritePair(fromCode, toCode)
ToggleChooses(map, from, to) ==
    IF PairKey(from, to) \in DOMAIN map
    THEN [kind |-> "delete", id |-> map[PairKey(from, to)],
          from |-> from, to |-> to]
    ELSE [kind |-> "add", id |-> 0, from |-> from, to |-> to]

\* toggleFavorite(), lines 342-357, up to the await of addDoc / deleteDoc.
ToggleFavorite ==
    /\ build = "favorites"
    /\ IF HasIdentity(isAuthReady, userId, db)
       THEN LET op == ToggleChooses(favoritesMap, fromCurrency, toCurrency)
            IN /\ IssueOp(op)
               /\ opLog' = Append(opLog, op)
               /\ lastFavorite' = "toggleIssued"
       ELSE \* the alert of line 344
            /\ UNCHANGED <<toggleOps, opLog>>
            /\ lastFavorite' = "toggleRefused"
    /\ UNCHANGED <<build, authVars, rateVars, fetchVars, inputVars, convVars,
                   histVars, favoritesMap, favDocs, favoritesList, listening,
                   snapshotDue>>

\* addDoc / deleteDoc settles: the store applied it, or it failed (the
\* catch blocks of saveFavoritePair / deleteFavoritePair show an alert).
NewDocId(id) ==
    /\ favDocs[id].state = "free"
    /\ \A j \in DocIds : j < id => favDocs[j].state # "free"

StoreOpSettles(k, applied) ==
    /\ k \in 1..Len(toggleOps)
    /\ LET op == toggleOps[k]
       IN IF ~applied
          THEN UNCHANGED <<favDocs, snapshotDue>>
          ELSE /\ snapshotDue' = TRUE
               /\ IF op.kind = "add"
                  THEN \E id \in DocIds :
                          /\ NewDocId(id)
                          /\ favDocs' = [favDocs EXCEPT ![id] =
                                [state |-> "live", from |-> op.from,
                                 to |-> op.to]]
                  ELSE favDocs' = [favDocs EXCEPT ![op.id].state = "deleted"]
    /\ toggleOps' = [j \in 1..(Len(toggleOps) - 1) |->
                        IF j < k THEN toggleOps[j] ELSE toggleOps[j + 1]]
    /\ UNCHANGED <<build, authVars, rateVars, fetchVars, inputVars, convVars,
                   histVars, favoritesMap, favoritesList, listening, opLog,
                   lastFavorite>>

\* getFavoritesCollectionRef(): if (!db || !userId) throw
GetFavoritesCollectionRefThrows(database, uid) == ~database \/ uid = Null

\* 'click' on the delete mark of an entry of $favoritesList:
\* deleteFavoritePair(doc.id, pair); what getFavoritesCollectionRef throws
\* is caught (an alert).
DeleteButton(d) ==
    /\ build = "favorites"
    /\ d \in favoritesList
    /\ IF ~GetFavoritesCollectionRefThrows(db, userId)
       THEN /\ Len(toggleOps) < MaxToggles
            /\ toggleOps' = Append(toggleOps,
                   [kind |-> "delete", id |-> d.id, from |-> d.from,
                    to |-> d.to])
       ELSE UNCHANGED toggleOps
    /\ UNCHANGED <<build, authVars, rateVars, fetchVars, inputVars, convVars,
                   histVars, favoritesMap, favDocs, favoritesList, listenVars,
                   opLog>>

\* ------------------------------------------------------------------------
\* The session
\* ------------------------------------------------------------------------
NoStore == [by |-> 0, source |-> "none"]

\* The module's top-level state, after populateDropdowns.
Fresh ==
    /\ userId = Null
    /\ isAuthReady = FALSE
    /\ currencyRates = EmptyRates
    /\ isOfflineMode = FALSE
    /\ hasRatesLoaded = FALSE
    /\ favoritesMap = [key \in {} |-> 0]
    /\ fetches = [f \in FetchIds |-> IdleFetch]
    /\ storeBy = NoStore
    /\ fromCurrency = "USD"
    /\ toCurrency = "NGN"
    /\ inputCount = 0
    /\ sameAgain = FALSE
    /\ rateDisplay = Blank
    /\ totalDisplay = Blank
    /\ lastConversion = "none"
    /\ histReqs = <<>>
    /\ historicalRates = HistBlank
    /\ lastBody = NoBody
    /\ favDocs = [id \in DocIds |-> FreeDoc]
    /\ favoritesList = {}
    /\ listening = FALSE
    /\ snapshotDue = FALSE
    /\ toggleOps = <<>>
    /\ opLog = <<>>
    /\ lastFavorite = "none"

Init ==
    /\ Fresh
    /\ initPc = "start"
    /\ db = FALSE
    /\ build \in {"favorites", "basic"}
    /\ cacheDoc \in EarlierCaches
    /\ fromAmount = "1"

FetchStep ==
    \E f \in FetchIds :
       \/ \E payload \in Payloads : LiveAttemptSucceeds(f, payload)
       \/ LiveAttemptFails(f)
       \/ BackoffElapses(f)
       \/ \E written \in BOOLEAN : CacheWriteSettles(f, written)
       \/ \E delivered \in BOOLEAN : CacheReadSettles(f, delivered)

Startup ==
    \/ \E config \in {"empty", "throws", "ok"} : InitFirebase(config)
    \/ \E ok \in BOOLEAN : SignInSettles(ok)
    \/ \E user \in {Null, Uid} : AuthStateChanged(user)

HistoricalStep ==
    \E k \in 1..MaxHist, ok \in BOOLEAN, series \in HistSeries :
       HistoricalSettles(k, ok, series)

\* The same with the two bodies the session specification draws from: no
\* dates, and a rising series.
SessionSeries == { <<>>, <<Pt(1, 110), Pt(2, 120)>> }

SessionHistoricalStep ==
    \E k \in 1..MaxHist, ok \in BOOLEAN, series \in SessionSeries :
       HistoricalSettles(k, ok, series)

\* The session from window.onload until the rate pipeline has settled:
\* start-up, the fetchRates activations it issues, and the conversions and
\* historical requests these trigger.
Next ==
    \/ Startup
    \/ FetchStep
    \/ SessionHistoricalStep

Spec == Init /\ [][Next]_vars

\* fetchRates on its own: any retries argument, with or without a database.
InitFetch ==
    /\ Fresh
    /\ initPc = "direct"
    /\ db \in BOOLEAN
    /\ build = "favorites"
    /\ cacheDoc \in EarlierCaches
    /\ fromAmount = "1"

NextFetch ==
    \/ \E f \in FetchIds, retries \in 0..MaxRetries :
          FetchRatesDirect(f, retries)
    \/ FetchStep

SpecFetch == InitFetch /\ [][NextFetch]_vars

\* The session once the rate pipeline has settled, driven by input events.
\* It starts with the rates loaded live, loaded from the cache, or not
\* loaded.
InitConvert ==
    /\ userId = Null
    /\ isAuthReady = TRUE
    /\ initPc = "apiOnly"
    /\ db = FALSE
    /\ build \in {"favorites", "basic"}
    /\ cacheDoc = NoDoc
    /\ favoritesMap = [key \in {} |-> 0]
    /\ fetches = [f \in FetchIds |-> IdleFetch]
    /\ storeBy = NoStore
    /\ fromCurrency = "USD"
    /\ toCurrency = "NGN"
    /\ fromAmount = "1"
    /\ inputCount = 0
    /\ sameAgain = FALSE
    /\ rateDisplay = Blank
    /\ totalDisplay = Blank
    /\ lastConversion = "none"
    /\ histReqs = <<>>
    /\ historicalRates = HistBlank
    /\ lastBody = NoBody
    /\ favDocs = [id \in DocIds |-> FreeDoc]
    /\ favoritesList = {}
    /\ listening = FALSE
    /\ snapshotDue = FALSE
    /\ toggleOps = <<>>
    /\ opLog = <<>>
    /\ lastFavorite = "none"
    /\ \/ /\ hasRatesLoaded = FALSE
          /\ isOfflineMode = FALSE
          /\ currencyRates = EmptyRates
       \/ /\ hasRatesLoaded = TRUE
          /\ isOfflineMode \in BOOLEAN
          /\ currencyRates \in
                 { WithBase(p, API_BASE_CURRENCY) : p \in Payloads }

InputStep ==
    \/ \E text \in AmountTexts : AmountInput(text)
    \/ \E code \in Codes : FromChange(code)
    \/ \E code \in Codes : ToChange(code)
    \/ SwitchCurrencies

NextConvert ==
    \/ InputStep
    \/ HistoricalStep

SpecConvert == InitConvert /\ [][NextConvert]_vars

\* The favourites of a session of the part_000 build whose start-up is
\* over (signed in, signed out, or without a database) or still waits for
\* the sign-in; its rates came from the cache.
InitFavorites ==
    /\ build = "favorites"
    /\ \/ /\ initPc = "observing" /\ db = TRUE /\ userId = Uid
          /\ isAuthReady = TRUE /\ listening = TRUE /\ snapshotDue = TRUE
       \/ /\ initPc = "observing" /\ db = TRUE /\ userId = Null
          /\ isAuthReady = TRUE /\ listening = FALSE /\ snapshotDue = FALSE
       \/ /\ initPc = "apiOnly" /\ db = FALSE /\ userId = Null
          /\ isAuthReady = TRUE /\ listening = FALSE /\ snapshotDue = FALSE
       \/ /\ initPc = "signingIn" /\ db = TRUE /\ userId = Null
          /\ isAuthReady = FALSE /\ listening = FALSE /\ snapshotDue = FALSE
    /\ \/ /\ initPc # "signingIn" /\ db
          /\ hasRatesLoaded = TRUE
          /\ isOfflineMode = TRUE
          /\ \E p \in Payloads :
                /\ currencyRates = WithBase(p, API_BASE_CURRENCY)
                /\ cacheDoc = Snapshot(currencyRates)
       \/ /\ hasRatesLoaded = FALSE
          /\ isOfflineMode = FALSE
          /\ currencyRates = EmptyRates
          /\ cacheDoc = NoDoc
    /\ favoritesMap = [key \in {} |-> 0]
    /\ fetches = [f \in FetchIds |-> IdleFetch]
    /\ storeBy = NoStore
    /\ fromCurrency = "USD"
    /\ toCurrency = "NGN"
    /\ fromAmount = "1"
    /\ inputCount = 0
    /\ sameAgain = FALSE
    /\ rateDisplay = Blank
    /\ totalDisplay = Blank
    /\ lastConversion = "none"
    /\ histReqs = <<>>
    /\ historicalRates = HistBlank
    /\ lastBody = NoBody
    /\ favDocs = [id \in DocIds |-> FreeDoc]
    /\ favoritesList = {}
    /\ toggleOps = <<>>
    /\ opLog = <<>>
    /\ lastFavorite = "none"

NextFavorites ==
    \/ ToggleFavorite
    \/ \E k \in 1..MaxToggles, applied \in BOOLEAN : StoreOpSettles(k, applied)
    \/ SnapshotDelivered
    \/ \E d \in favoritesList : DeleteButton(d)
    \/ \E d \in favoritesList : LoadFavoritePair(d)
    \/ SwitchCurrencies

SpecFavorites == InitFavorites /\ [][NextFavorites]_vars

\* The trend analysis: fetchHistoricalRates called on its own or by a
\* conversion, in a session whose rates are loaded live, loaded from the
\* cache, or not loaded.
NextHistorical ==
    \/ \E to \in {"EUR", "NGN"} : FetchHistoricalRatesDirect("USD", to)
    \/ SwitchCurrencies
    \/ HistoricalStep

SpecHistorical == InitConvert /\ [][NextHistorical]_vars

\* A session that ends in API-only mode (no Firebase config, an
\* initialisation that throws, or a sign-in that fails), with the user
\* typing an amount or switching the pair at any moment, before or after
\* its one fetchRates call has settled.
ApiOnlyStartup ==
    \/ \E config \in {"empty", "throws", "ok"} : InitFirebase(config)
    \/ SignInSettles(FALSE)

ApiOnlyInputStep ==
    \/ \E text \in AmountTexts : AmountInput(text)
    \/ SwitchCurrencies

NextApiOnly ==
    \/ ApiOnlyStartup
    \/ FetchStep
    \/ SessionHistoricalStep
    \/ ApiOnlyInputStep

SpecApiOnly == Init /\ [][NextApiOnly]_vars

\* fetchRates called with a small retries argument: negative, zero, one
\* or two.
NextFewRetries ==
    \/ \E f \in FetchIds, retries \in {-1, 0, 1, 2} :
          FetchRatesDirect(f, retries)
    \/ FetchStep

SpecFewRetries == InitFetch /\ [][NextFewRetries]_vars

\* listenForFavorites called on its own, in whatever state the session is.
ListenForFavoritesDirect ==
    /\ build = "favorites"
    /\ CallListenForFavorites(isAuthReady, userId, db)
    /\ UNCHANGED <<build, authVars, rateVars, fetchVars, inputVars, convVars,
                   histVars, favoritesMap, favDocs, favoritesList, toggleOps,
                   opLog>>

\* The favourites while the identity comes and goes: the auth callback
\* fires again with a user or with null (signed out), and the favourites
\* operations are called in every state of authentication.
NextIdentity ==
    \/ ToggleFavorite
    \/ \E k \in 1..MaxToggles, applied \in BOOLEAN : StoreOpSettles(k, applied)
    \/ SnapshotDelivered
    \/ \E d \in favoritesList : DeleteButton(d)
    \/ ListenForFavoritesDirect
    \/ \E user \in {Null, Uid} : AuthStateChanged(user)

SpecIdentity == InitFavorites /\ [][NextIdentity]_vars

\* ------------------------------------------------------------------------
\* Properties
\* ------------------------------------------------------------------------
Started(f) == fetches[f].pc # "idle"

\* The activation's live fetch has succeeded (it saves, or has returned
\* true without a cache read).
LiveSucceeded(f) ==
    \/ fetches[f].pc = "saving"
    \/ fetches[f].pc = "done" /\ fetches[f].result /\ fetches[f].got = "none"

\* The attempts and delays of an activation so far.
C1_Shape ==
    \A f \in FetchIds :
       LET rec == fetches[f]
       IN Started(f) /\ rec.retries >= 1 =>
             /\ rec.attempts <= rec.retries
             /\ rec.attempts = rec.i + 1
             /\ Len(rec.delays) =
                   IF rec.pc = "delay" THEN rec.attempts ELSE rec.attempts - 1
             /\ \A k \in 1..Len(rec.delays) :
                   rec.delays[k] = (2 ^ (k - 1)) * 1000

\* After a success or the last failure nothing more is attempted or waited.
C1_Stops ==
    \A f \in FetchIds :
       fetches[f].pc \in {"saving", "cacheRead", "done"} =>
          /\ fetches'[f].attempts = fetches[f].attempts
          /\ fetches'[f].delays = fetches[f].delays

\* C1: with retries >= 1 an activation issues at most `retries` attempts;
\* the k-th delay it has waited is 2^(k-1) * 1000 ms, one after each failed
\* attempt but the last; and once an attempt has succeeded or the last has
\* failed it issues no further attempt and waits no further delay.
C1_RetryBackoff == [](C1_Shape) /\ [][C1_Stops]_vars

C1_Witness ==
    \E f \in FetchIds :
       /\ fetches[f].retries = 3
       /\ fetches[f].pc = "cacheRead"
       /\ fetches[f].attempts = 3
       /\ fetches[f].delays = <<1000, 2000>>

\* The one cache read comes after `retries` attempts, none of which succeeded.
C2_ReadAfterAll ==
    \A f \in FetchIds :
       fetches[f].reads > 0 =>
          /\ fetches[f].reads = 1
          /\ fetches[f].attempts = fetches[f].retries
          /\ ~LiveSucceeded(f)

\* The step in which getDoc delivers the snapshot.
C2_Restores ==
    \A f \in FetchIds :
       fetches[f].pc = "cacheRead" /\ fetches'[f].got = "snapshot" =>
          /\ fetches'[f].pc = "done"
          /\ fetches'[f].result
          /\ JSONStringify(currencyRates') = cacheDoc.rates
          /\ isOfflineMode'
          /\ hasRatesLoaded'

\* C2: a cache read is issued only after exactly `retries` failed attempts,
\* and when it delivers a snapshot the activation returns true with
\* currencyRates equal to the snapshot's rates, isOfflineMode set and
\* hasRatesLoaded true.
C2_CacheFallback == [](C2_ReadAfterAll) /\ [][C2_Restores]_vars

C2_Witness ==
    \E f \in FetchIds :
       /\ fetches[f].pc = "done"
       /\ fetches[f].got = "snapshot"
       /\ fetches[f].retries = 3
       /\ fetches[f].attempts = 3
       /\ isOfflineMode
       /\ hasRatesLoaded
       /\ JSONStringify(currencyRates) = cacheDoc.rates

\* The live fetch of a call with retries = 3 failed on the first attempt
\* and succeeded on the second.
SecondOfThree(f) ==
    /\ fetches[f].retries = 3
    /\ fetches[f].attempts = 2
    /\ LiveSucceeded(f)

OnlyActivation(f) == \A g \in FetchIds \ {f} : ~Started(g)

\* C3 as stated: the one backoff delay before the success is 2000 ms and
\* the offline flag is clear on return.
C3_AsStated ==
    \A f \in FetchIds :
       SecondOfThree(f) /\ fetches[f].pc = "done" /\ OnlyActivation(f) =>
          /\ fetches[f].delays = <<2000>>
          /\ ~isOfflineMode

\* C3: a call with retries = 3 whose first attempt fails and whose second
\* succeeds has waited exactly one backoff delay, of 1000 ms, and has read
\* no cache; when no other activation overlaps it the offline flag is
\* clear on its return.
C3_OneDelay ==
    \A f \in FetchIds :
       SecondOfThree(f) =>
          /\ fetches[f].delays = <<1000>>
          /\ fetches[f].reads = 0
          /\ (fetches[f].pc = "done" /\ OnlyActivation(f) => ~isOfflineMode)

C3_Witness ==
    \E f \in FetchIds :
       /\ SecondOfThree(f)
       /\ fetches[f].pc = "done"
       /\ OnlyActivation(f)
       /\ ~isOfflineMode
       /\ hasRatesLoaded

\* C4 as stated: a store assigned by a later-issued activation is never
\* replaced by the result of an earlier-issued one.
C4_LatestFetchWins ==
    [][storeBy' # storeBy => storeBy'.by >= storeBy.by]_vars

\* C5 as stated: updateConversion reports the first failing check in the
\* order rates loaded, amount a finite number > 0, both currencies in the
\* store; it produces a rate and a total only when all three pass.
C5_CheckOrder ==
    lastConversion # "none" =>
       LET amount == ParseFloat(fromAmount)
       IN lastConversion =
             IF ~hasRatesLoaded THEN "NotReady"
             ELSE IF ~(amount.kind = "num" /\ amount.sign > 0)
                  THEN "InvalidAmount"
             ELSE IF \/ fromCurrency \notin DOMAIN currencyRates
                     \/ toCurrency \notin DOMAIN currencyRates
                  THEN "MissingRate"
             ELSE "Ok"

\* C6 as stated: the collection never holds two entries for one pair.
C6_NoDuplicateFavorites ==
    \A d, e \in LiveDocs : d.from = e.from /\ d.to = e.to => d.id = e.id

\* A step of toggleFavorite that passed the identity check.
C7_Step ==
    opLog' # opLog =>
       LET key == PairKey(fromCurrency, toCurrency)
           op == toggleOps'[Len(toggleOps')]
       IN /\ HasIdentity(isAuthReady, userId, db)
          /\ Len(opLog') = Len(opLog) + 1
          /\ Len(toggleOps') = Len(toggleOps) + 1
          /\ SubSeq(toggleOps', 1, Len(toggleOps)) = toggleOps
          /\ opLog'[Len(opLog')] = op
          /\ favDocs' = favDocs
          /\ IF key \in DOMAIN favoritesMap
             THEN op.kind = "delete" /\ op.id = favoritesMap[key]
             ELSE /\ op.kind = "add"
                  /\ op.from = fromCurrency
                  /\ op.to = toCurrency

\* C7: with an authenticated user a toggleFavorite issues exactly one
\* store operation and changes no document itself: a deleteDoc of the id
\* the projection maps the selected pair to when the projection has the
\* pair, an addDoc of the selected from and to otherwise.
C7_ToggleIssuesOne == [][C7_Step]_vars

C7_Witness ==
    /\ Len(opLog) = 2
    /\ opLog[1].kind = "add"
    /\ opLog[2].kind = "delete"
    /\ favDocs[opLog[2].id].state = "deleted"
    /\ favDocs[opLog[2].id].from = opLog[1].from

\* C8 as stated: once no historical request is in flight, the trend shown
\* comes from the most recently issued request.
C8_LatestTrendShown == histReqs = <<>> => historicalRates.newest

\* C9: whenever rates are loaded the store maps the base currency to 1,
\* and a store that came from a live response holds an entry for the base
\* besides the response's entries.
C9_BaseIsOne ==
    /\ hasRatesLoaded =>
          /\ API_BASE_CURRENCY \in DOMAIN currencyRates
          /\ currencyRates[API_BASE_CURRENCY] = 1
    /\ storeBy.source = "live" =>
          \E p \in Payloads :
             /\ DOMAIN currencyRates = DOMAIN p \cup {API_BASE_CURRENCY}
             /\ \A c \in DOMAIN p \ {API_BASE_CURRENCY} :
                   currencyRates[c] = p[c]
             /\ currencyRates[API_BASE_CURRENCY] = 1

\* The response listed the base itself (USD: 5); the store holds USD: 1.
C9_Witness ==
    /\ hasRatesLoaded
    /\ storeBy.source = "live"
    /\ DOMAIN currencyRates = {"USD", "EUR"}
    /\ currencyRates["EUR"] = 4
    /\ currencyRates["USD"] = 1

\* C10 as stated: every successful live fetch is followed by a cache
\* write, and the cache is read only once every attempt has failed.
C10_AsStated ==
    \A f \in FetchIds :
       /\ fetches[f].pc = "done" /\ LiveSucceeded(f) => fetches[f].writes = 1
       /\ fetches[f].reads > 0 =>
             fetches[f].attempts = fetches[f].retries /\ ~LiveSucceeded(f)

\* C10: with a database handle, every successful live fetch issues one
\* write of the snapshot of the rates it stored, and without one it issues
\* none; only a successful live fetch writes; and the cache is read only
\* once every attempt has failed, never while an attempt remains or after
\* a success.
C10_WriteThenRead ==
    \A f \in FetchIds :
       LET rec == fetches[f]
       IN /\ LiveSucceeded(f) => rec.writes = (IF db THEN 1 ELSE 0)
          /\ rec.writes > 0 => LiveSucceeded(f) /\ rec.doc.exists
          /\ rec.reads > 0 =>
                /\ rec.attempts = rec.retries
                /\ rec.i = rec.retries - 1
                /\ rec.writes = 0
                /\ ~LiveSucceeded(f)
          /\ rec.pc \in {"fetching", "delay"} => rec.reads = 0

C10_Witness ==
    \E f, g \in FetchIds :
       /\ db
       /\ fetches[f].pc = "done"
       /\ LiveSucceeded(f)
       /\ fetches[f].writes = 1
       /\ cacheDoc = fetches[f].doc
       /\ fetches[g].pc = "done"
       /\ fetches[g].reads = 1
       /\ fetches[g].attempts = fetches[g].retries

\* The step in which the cache write of activation f settles.
WriteSettlesFor(f) == fetches[f].pc = "saving" /\ fetches'[f].pc # "saving"

C11_Settle ==
    \A f \in FetchIds :
       WriteSettlesFor(f) =>
          /\ fetches'[f].pc = "done"
          /\ fetches'[f].result
          /\ rateVars' = rateVars
          /\ storeBy' = storeBy
          /\ fetches'[f].attempts = fetches[f].attempts
          /\ fetches'[f].delays = fetches[f].delays
          /\ fetches'[f].reads = 0

\* A call that has returned after its write does nothing more.
C11_Returned ==
    \A f \in FetchIds :
       fetches[f].pc = "done" /\ fetches[f].writes > 0 =>
          fetches'[f] = fetches[f]

\* From the live response on, a call that no other overlaps sees the
\* rates it stored.
C11_Alone ==
    \A f \in FetchIds :
       fetches[f].writes > 0 /\ OnlyActivation(f) =>
          /\ hasRatesLoaded
          /\ ~isOfflineMode
          /\ Snapshot(currencyRates) = fetches[f].doc
          /\ fetches[f].pc = "done" => fetches[f].result

Alerted(f) == fetches[f].alert

\* An alert comes after `retries` failed attempts and a failed cache load:
\* no database, or a read that found no document or raised an error.
C12_OnlyAfterBoth ==
    \A f \in FetchIds :
       Alerted(f) =>
          /\ fetches[f].retries >= 1
          /\ fetches[f].attempts = fetches[f].retries
          /\ ~LiveSucceeded(f)
          /\ fetches[f].writes = 0
          /\ fetches[f].pc = "done"
          /\ ~fetches[f].result
          /\ \/ fetches[f].reads = 0 /\ ~db
             \/ fetches[f].reads = 1 /\ fetches[f].got = "nothing"

\* The step that shows the alert leaves the session without rates.
C12_LeftUnloaded ==
    \A f \in FetchIds : ~Alerted(f) /\ Alerted(f)' => ~hasRatesLoaded'

\* An input event handled while no rates are loaded is rejected with
\* NotReady and shows neither a rate nor a total nor a trend.
C12_Rejected ==
    inputCount' # inputCount /\ ~hasRatesLoaded =>
       /\ lastConversion' = "NotReady"
       /\ rateDisplay' = rateDisplay
       /\ totalDisplay' = totalDisplay
       /\ histVars' = histVars
       /\ rateVars' = rateVars

\* The input handlers stay enabled after the alert.
C12_Interactive ==
    (\E f \in FetchIds : Alerted(f)) /\ inputCount < MaxInputs =>
       ENABLED ApiOnlyInputStep

\* C12: the critical alert is shown only by a call whose live fetch failed
\* on all its attempts and whose cache load failed too (no database, no
\* document, or a read error); the step that shows it leaves hasRatesLoaded
\* false; the session's input handlers stay enabled; and every conversion
\* attempted while hasRatesLoaded is false is rejected with NotReady and
\* changes neither the rate nor the total shown.
C12_AlertThenNotReady ==
    /\ [](C12_OnlyAfterBoth /\ C12_Interactive)
    /\ [][C12_LeftUnloaded /\ C12_Rejected]_vars

\* The alert has been shown after a cache read; a valid amount typed and a
\* switch of the pair were rejected, and nothing is shown.
C12_Witness ==
    /\ \E f \in FetchIds : Alerted(f) /\ fetches[f].reads = 1
    /\ ~hasRatesLoaded
    /\ inputCount = 2
    /\ fromAmount = "3"
    /\ fromCurrency = "NGN"
    /\ lastConversion = "NotReady"
    /\ rateDisplay = Blank
    /\ totalDisplay = Blank

\* A step that issues a historical request.
IssuesHistorical ==
    /\ Len(histReqs') = Len(histReqs) + 1
    /\ histReqs'[Len(histReqs')].newest

\* fetchHistoricalRates called on its own (no input event, no response).
DirectHistoricalCall ==
    /\ inputCount' = inputCount
    /\ Len(histReqs') >= Len(histReqs)
    /\ histVars' # histVars

\* Called while not online, the analysis shows the `requires a live
\* connection' result and issues no request.
C13_NotOnline ==
    DirectHistoricalCall /\ (isOfflineMode \/ ~hasRatesLoaded) =>
       /\ historicalRates'.kind = "offline"
       /\ historicalRates'.kind \notin {"error", "trend"}
       /\ Len(histReqs') = Len(histReqs)

\* A request is issued only with rates loaded and the offline flag clear.
C13_OnlyOnline == IssuesHistorical => hasRatesLoaded /\ ~isOfflineMode

\* C13: when the offline flag is set or rates are not loaded,
\* fetchHistoricalRates shows the `requires a live connection' result, which
\* is not the error result, and issues no remote request; a historical
\* request is issued only in states where rates are loaded and the offline
\* flag is clear.
C13_RequiresLive == [][C13_NotOnline /\ C13_OnlyOnline]_vars

\* The analysis was called for USD/EUR with rates not loaded.
C13_Witness ==
    /\ ~hasRatesLoaded
    /\ historicalRates.kind = "offline"
    /\ historicalRates.from = "USD"
    /\ historicalRates.to = "EUR"
    /\ histReqs = <<>>

\* The step in which the response of a historical request is handled.
HistSettleStep == Len(histReqs') = Len(histReqs) - 1

\* The dates of a response body that carry a rate for `to`.
Carrying(series, to) ==
    { k \in 1..Len(series) :
         to \in DOMAIN series[k].rates /\ series[k].rates[to] # 0 }

\* C14 as stated: every response that leaves fewer than 2 points, one with
\* no dates included, gives the `insufficient data' result with the count.
C14_AsStated ==
    [][HistSettleStep /\ lastBody'.ok =>
          LET n == Cardinality(Carrying(lastBody'.series, historicalRates'.to))
          IN n < 2 =>
                /\ historicalRates'.kind = "insufficient"
                /\ historicalRates'.count = n]_vars

C14_Step ==
    HistSettleStep /\ lastBody'.ok =>
       LET series == lastBody'.series
           n == Cardinality(Carrying(series, historicalRates'.to))
       IN /\ n < 2 /\ series # <<>> =>
                /\ historicalRates'.kind = "insufficient"
                /\ historicalRates'.count = n
          /\ series = <<>> => historicalRates'.kind = "nodata"
          /\ n < 2 => historicalRates'.dir = "none"
          /\ historicalRates'.kind = "insufficient" => n < 2

\* C14: a response that lists at least one date and leaves fewer than 2
\* points after the filter (0 or 1) gives the `not enough data points'
\* result carrying the number of points left, 1 for a single point; a
\* response with no dates gives the separate `no historical data found'
\* result; neither produces a trend summary.
C14_TooFewPoints == [][C14_Step]_vars

\* A response of two dates, one of them carrying the rate.
C14_Witness ==
    /\ lastBody = Body(<<Gap(1), Pt(2, 110)>>)
    /\ historicalRates.kind = "insufficient"
    /\ historicalRates.count = 1

\* The point of a response body at the earliest / latest date that carries
\* a rate for `to`.
EarliestPoint(series, to) ==
    LET k == CHOOSE k \in Carrying(series, to) :
                \A j \in Carrying(series, to) : series[k].date <= series[j].date
    IN [date |-> series[k].date, rate |-> series[k].rates[to]]

LatestPoint(series, to) ==
    LET k == CHOOSE k \in Carrying(series, to) :
                \A j \in Carrying(series, to) : series[k].date >= series[j].date
    IN [date |-> series[k].date, rate |-> series[k].rates[to]]

C15_Step ==
    HistSettleStep /\ lastBody'.ok =>
       LET series == lastBody'.series
           to == historicalRates'.to
           shown == historicalRates'
       IN Cardinality(Carrying(series, to)) >= 2 =>
             /\ shown.kind = "trend"
             /\ shown.count = Cardinality(Carrying(series, to))
             /\ shown.startDate = EarliestPoint(series, to).date
             /\ shown.startRate = EarliestPoint(series, to).rate
             /\ shown.endDate = LatestPoint(series, to).date
             /\ shown.endRate = LatestPoint(series, to).rate

\* C15: for a response with at least 2 dates carrying the target rate, in
\* whatever order it lists them, the trend starts at the point with the
\* earliest date and ends at the point with the latest date, and counts
\* only the dates that carry the target rate.
C15_EarliestToLatest == [][C15_Step]_vars

\* The response listed its dates as 2, 3, 4 (no rate), 1.
C15_Witness ==
    /\ lastBody = Body(<<Pt(2, 120), Pt(3, 100), Gap(4), Pt(1, 110)>>)
    /\ historicalRates.kind = "trend"
    /\ historicalRates.count = 3
    /\ historicalRates.startDate = 1
    /\ historicalRates.startRate = 110
    /\ historicalRates.endDate = 3
    /\ historicalRates.endRate = 100

\* p is (e - s) / s * 100 rounded to 2 decimals, in hundredths of a percent:
\* the nearest integer to 10000 * (e - s) / s.
IsPercentChange(p, s, e) == Abs(20000 * (e - s) - 2 * p * s) <= s

C16_Trend ==
    historicalRates.kind = "trend" =>
       LET s == historicalRates.startRate
           e == historicalRates.endRate
       IN /\ historicalRates.dir = "Increased" <=> e - s > 0
          /\ historicalRates.dir = "Decreased" <=> e - s < 0
          /\ historicalRates.dir = "Stable" <=> e = s
          /\ historicalRates.dir \in {"Increased", "Decreased", "Stable"}
          /\ IsPercentChange(historicalRates.pct, s, e)

\* The analysis of the points (1, 1.10), (2, 1.20).
C16_Example ==
    lastBody = Body(<<Pt(1, 110), Pt(2, 120)>>)
       /\ historicalRates.kind \in {"trend", "insufficient", "nodata"} =>
          /\ historicalRates.kind = "trend"
          /\ historicalRates.dir = "Increased"
          /\ historicalRates.pct = 909

\* C16: a trend with start rate s and end rate e is increased exactly when
\* e - s > 0, decreased exactly when e - s < 0 and stable exactly when
\* e = s; its percent change is (e - s) / s * 100 rounded to 2 decimals;
\* the points (d1, 1.10), (d2, 1.20) give increased and 9.09.
C16_DirectionAndPercent == C16_Trend /\ C16_Example

C16_Witness ==
    /\ lastBody = Body(<<Pt(1, 110), Pt(2, 120)>>)
    /\ historicalRates.kind = "trend"
    /\ historicalRates.startRate = 110
    /\ historicalRates.endRate = 120
    /\ historicalRates.dir = "Increased"
    /\ historicalRates.pct = 909

\* The results that stand for Empty: not online, no data, too few points.
EmptyKinds == {"offline", "nodata", "insufficient"}

C17_Step ==
    /\ HistSettleStep /\ ~lastBody'.ok =>
          /\ historicalRates'.kind = "error"
          /\ historicalRates'.kind \notin EmptyKinds
          /\ historicalRates'.dir = "none"
    /\ HistSettleStep /\ lastBody'.ok =>
          historicalRates'.kind \in {"nodata", "insufficient", "trend"}
    /\ DirectHistoricalCall /\ NotOnline(hasRatesLoaded, isOfflineMode) =>
          historicalRates'.kind = "offline"
    /\ historicalRates'.kind = "error" /\ historicalRates' # historicalRates =>
          HistSettleStep /\ ~lastBody'.ok

\* C17: a historical request that fails (network error, status not ok,
\* unparsable body) shows the error result, which is none of the Empty
\* results; a response that was received and parsed, and a call made while
\* not online, never show the error result.
C17_FailureNotEmpty == [][C17_Step]_vars

\* The request for USD/NGN failed.
C17_Witness ==
    /\ lastBody = NoBody
    /\ historicalRates.kind = "error"
    /\ historicalRates.from = "USD"
    /\ historicalRates.to = "NGN"
    /\ hasRatesLoaded
    /\ ~isOfflineMode

\* A step of an input handler, which ends in updateConversion().
ConversionStep == inputCount' # inputCount

\* The handler leaves the inputs as the last conversion found them.
SameInputs ==
    /\ lastConversion # "none"
    /\ fromAmount' = fromAmount
    /\ fromCurrency' = fromCurrency
    /\ toCurrency' = toCurrency

C18_Step ==
    ConversionStep =>
       /\ lastConversion' \in {"NotReady", "InvalidAmount", "MissingRate", "Ok"}
       /\ currencyRates' = currencyRates
       /\ isOfflineMode' = isOfflineMode
       /\ hasRatesLoaded' = hasRatesLoaded
       /\ favoritesMap' = favoritesMap
       /\ SameInputs =>
             /\ lastConversion' = lastConversion
             /\ rateDisplay' = rateDisplay
             /\ totalDisplay' = totalDisplay

\* C18: with every outcome (NotReady, InvalidAmount, MissingRate, success)
\* updateConversion leaves currencyRates, isOfflineMode, hasRatesLoaded and
\* favoritesMap unchanged, and converting again in the same state with the
\* same amount and pair shows the same rate and total.
C18_ConversionFrame == [][C18_Step]_vars

\* USD to EUR was converted twice with the amount 1, at the rate 4.
C18_Witness ==
    /\ inputCount = 2
    /\ sameAgain
    /\ fromAmount = "1"
    /\ fromCurrency = "USD"
    /\ toCurrency = "EUR"
    /\ lastConversion = "Ok"
    /\ currencyRates = WithBase(("USD" :> 5) @@ ("EUR" :> 4), API_BASE_CURRENCY)
    /\ rateDisplay = Shown(40000)
    /\ totalDisplay = Shown(400)

\* C19 as stated: converting a valid amount x from a currency to itself
\* shows the rate 1.0000 and the total x.toFixed(2).
C19_SameCurrency ==
    LET amount == ParseFloat(fromAmount)
    IN lastConversion = "Ok" /\ fromCurrency = toCurrency
          /\ amount.kind = "num" =>
             /\ rateDisplay = Shown(10000)
             /\ totalDisplay = Shown(FloatToFixed(Float(amount.m, amount.e), 2))

\* The amount typed, in thousandths.
Thousandths(text) ==
    CASE text = "1" -> 1000
      [] text = "3" -> 3000
      [] text = "7abc" -> 7000
      [] text = "0.225" -> 225
      [] OTHER -> 0

\* The total shown for the amount 1 and the selected pair, in hundredths.
TotalOfOne == TotalText(Num(1), currencyRates, fromCurrency, toCurrency).v

\* A conversion of a positive finite amount has succeeded.
Converted ==
    /\ lastConversion = "Ok"
    /\ Thousandths(fromAmount) > 0

\* C20 as stated: the total shown for x is x times the total shown for 1.
C20_AsStated ==
    Converted =>
       1000 * totalDisplay.v = Thousandths(fromAmount) * TotalOfOne

\* C20: the total shown for a positive amount x differs from x times the
\* total shown for 1 by at most (x + 1) / 2 hundredths, the two roundings
\* to 2 decimals; it equals it when x is 1.
C20_LinearUpToRounding ==
    Converted =>
       LET x == Thousandths(fromAmount)
       IN /\ 2 * Abs(1000 * totalDisplay.v - x * TotalOfOne) <= x + 1000
          /\ x = 1000 => totalDisplay.v = TotalOfOne

\* 3 NGN in USD at 1/3: the total is 1.00 where 3 * 0.33 is 0.99.
C20_Witness ==
    /\ lastConversion = "Ok"
    /\ fromAmount = "3"
    /\ fromCurrency = "NGN"
    /\ toCurrency = "USD"
    /\ currencyRates["NGN"] = 3
    /\ totalDisplay = Shown(100)
    /\ TotalOfOne = 33

\* ------------------------------------------------------------------------
\* C21: while no authenticated identity is available (auth not ready, no
\* user id, or no database) the favourites operations fail gracefully: a
\* call of toggleFavorite or listenForFavorites is refused, it issues no
\* store operation and attaches no listener, it leaves the projection, the
\* list and the collection as they are, and no step issues a store
\* operation; a call that goes on to getFavoritesCollectionRef never makes
\* it throw.
\* ------------------------------------------------------------------------
\* The step is or contains a call of toggleFavorite or listenForFavorites.
FavoritesCalled ==
    \/ lastFavorite' # lastFavorite
    \/ opLog' # opLog
    \/ listening' # listening

\* The identity the call of the step finds.
NoIdentityAtCall == ~HasIdentity(isAuthReady', userId', db')

C21_Refused ==
    FavoritesCalled /\ NoIdentityAtCall =>
       /\ lastFavorite' \in {"toggleRefused", "listenRefused"}
       /\ UNCHANGED <<favoritesMap, favDocs, favoritesList, listening,
                      snapshotDue, toggleOps, opLog>>

C21_NoStoreOperation ==
    NoIdentityAtCall => Len(toggleOps') <= Len(toggleOps)

C21_NoThrow ==
    FavoritesCalled /\ lastFavorite' \in {"toggleIssued", "listenAttached"}
       => ~GetFavoritesCollectionRefThrows(db', userId')

C21_FailsGracefully ==
    [][C21_Refused /\ C21_NoStoreOperation /\ C21_NoThrow]_vars

\* toggleFavorite was refused after the user signed out, with the listener
\* still attached and a favourite in the projection.
C21_Witness ==
    /\ lastFavorite = "toggleRefused"
    /\ ~HasIdentity(isAuthReady, userId, db)
    /\ listening
    /\ DOMAIN favoritesMap # {}

\* ------------------------------------------------------------------------
\* C22: the store is only ever replaced wholesale.  The step in which a
\* live fetch succeeds leaves exactly the rates of a response plus the base
\* entry in it, the step in which the cache delivers a snapshot exactly the
\* snapshot's rates; an entry of the previous store is in the new one only
\* if the new source has it; a fetch that ends without a live success and
\* without a snapshot leaves the store as it was; and no other step
\* changes the store.
\* ------------------------------------------------------------------------
LiveStoreStep(f) ==
    /\ fetches[f].pc = "fetching"
    /\ \/ fetches'[f].pc = "saving"
       \/ fetches'[f].pc = "done" /\ fetches'[f].result

CacheLoadStep(f) ==
    fetches[f].pc = "cacheRead" /\ fetches'[f].got = "snapshot"

FailsWithoutCache(f) ==
    \/ fetches[f].pc = "cacheRead" /\ fetches'[f].got = "nothing"
    \/ /\ fetches[f].pc = "fetching"
       /\ fetches'[f].pc = "done"
       /\ ~fetches'[f].result

\* The keys of the cached snapshot's rates.
CachedCodes == { m[1] : m \in cacheDoc.rates }

C22_Step ==
    /\ \A f \in FetchIds :
          /\ LiveStoreStep(f) =>
                \E p \in Payloads :
                   /\ currencyRates' =
                         [c \in DOMAIN p \cup {API_BASE_CURRENCY} |->
                             IF c = API_BASE_CURRENCY THEN 1 ELSE p[c]]
                   /\ \A c \in DOMAIN currencyRates \ DOMAIN p :
                         c # API_BASE_CURRENCY =>
                            c \notin DOMAIN currencyRates'
          /\ CacheLoadStep(f) =>
                /\ currencyRates' = JSONParse(cacheDoc.rates)
                /\ \A c \in DOMAIN currencyRates \ CachedCodes :
                      c \notin DOMAIN currencyRates'
          /\ FailsWithoutCache(f) => currencyRates' = currencyRates
    /\ currencyRates' # currencyRates =>
          \E f \in FetchIds : LiveStoreStep(f) \/ CacheLoadStep(f)

C22_ReplacedWholesale == [][C22_Step]_vars

\* The first activation stored USD, EUR and NGN; the second activation's
\* live response had no NGN, and the store has none.
C22_Witness ==
    /\ storeBy = [by |-> 2, source |-> "live"]
    /\ fetches[1].doc.exists
    /\ "NGN" \in { m[1] : m \in fetches[1].doc.rates }
    /\ DOMAIN currencyRates = {"USD", "EUR"}

\* ------------------------------------------------------------------------
\* C23 as stated: in every state at most one fetchRates activation and at
\* most one historical request are in flight.
\* ------------------------------------------------------------------------
\* The activation waits for a response, a timer, setDoc or getDoc.
InFlight(f) == fetches[f].pc \in {"fetching", "delay", "saving", "cacheRead"}

C23_AtMostOneInFlight ==
    /\ Cardinality({ f \in FetchIds : InFlight(f) }) <= 1
    /\ Len(histReqs) <= 1

\* ------------------------------------------------------------------------
\* C24: after each emission of the favourites subscription the projection
\* reflects exactly the set delivered: its keys are the pairs of the
\* documents of that snapshot, each mapped to the id of a document of the
\* snapshot with that pair, so that no key of an earlier snapshot remains
\* unless the snapshot has it, and an empty snapshot leaves it empty.
\* ------------------------------------------------------------------------
\* The onSnapshot callback runs.
EmissionStep == snapshotDue /\ ~snapshotDue'

C24_Step ==
    EmissionStep =>
       /\ DOMAIN favoritesMap' = { PairKey(d.from, d.to) : d \in LiveDocs }
       /\ \A key \in DOMAIN favoritesMap' :
             \E d \in LiveDocs :
                /\ d.id = favoritesMap'[key]
                /\ PairKey(d.from, d.to) = key
       /\ \A key \in DOMAIN favoritesMap :
             key \in DOMAIN favoritesMap' =>
                \E d \in LiveDocs : PairKey(d.from, d.to) = key
       /\ LiveDocs = {} => DOMAIN favoritesMap' = {}

C24_ProjectionIsSnapshot == [][C24_Step]_vars

\* A favourite was added, shown, and removed through the projection; the
\* snapshot after the removal was delivered and the projection is empty.
C24_Witness ==
    /\ listening
    /\ ~snapshotDue
    /\ DOMAIN favoritesMap = {}
    /\ LiveDocs = {}
    /\ \E k \in 1..Len(opLog) :
          /\ opLog[k].kind = "delete"
          /\ favDocs[opLog[k].id].state = "deleted"

\* ------------------------------------------------------------------------
\* C25 as stated: whenever the store holds the rates of a successful live
\* fetch the offline flag is clear, also when fetchRates activations
\* overlap.
\* ------------------------------------------------------------------------
C25_LiveMeansOnline == storeBy.source = "live" => ~isOfflineMode

\* ------------------------------------------------------------------------
\* C26 as stated: in every state, also when fetchRates activations
\* overlap, the offline flag implies that rates are loaded.
\* ------------------------------------------------------------------------
C26_OfflineImpliesLoaded == isOfflineMode => hasRatesLoaded

\* ------------------------------------------------------------------------
\* C27: fetchRates called with retries <= 0 makes no live attempt, waits no
\* delay, reads and writes no cache and returns false at once; the call
\* leaves the store, hasRatesLoaded and the cache document as they were
\* and the offline flag clear.
\* ------------------------------------------------------------------------
\* The step is the call of activation f.
CalledNow(f) == fetches[f].pc = "idle" /\ fetches'[f].pc # "idle"

C27_Call ==
    \A f \in FetchIds :
       CalledNow(f) /\ fetches'[f].retries <= 0 =>
          /\ fetches'[f].pc = "done"
          /\ ~fetches'[f].result
          /\ UNCHANGED <<currencyRates, hasRatesLoaded, cacheDoc, storeBy>>
          /\ ~isOfflineMode'

C27_Nothing ==
    \A f \in FetchIds :
       Started(f) /\ fetches[f].retries <= 0 =>
          /\ fetches[f].pc = "done"
          /\ ~fetches[f].result
          /\ fetches[f].attempts = 0
          /\ fetches[f].delays = <<>>
          /\ fetches[f].reads = 0
          /\ fetches[f].writes = 0
          /\ ~fetches[f].alert

C27_ZeroRetries == [](C27_Nothing) /\ [][C27_Call]_vars

\* The first call loaded the cache; the second, with retries <= 0, has
\* returned false having read nothing, and the store still holds the
\* cached rates with the offline flag now clear.
C27_Witness ==
    /\ fetches[1].got = "snapshot"
    /\ fetches[2].pc = "done"
    /\ fetches[2].retries <= 0
    /\ storeBy = [by |-> 1, source |-> "cache"]
    /\ hasRatesLoaded
    /\ ~isOfflineMode

\* ------------------------------------------------------------------------
\* C28 as stated: in the build with favourites, once rates are loaded no
\* later fetchRatesAndInitialize issues a fetch, and from then on
\* hasRatesLoaded stays true, the store never changes, and an offline flag
\* that is set is never cleared.
\* ------------------------------------------------------------------------
C28_Step ==
    build = "favorites" /\ hasRatesLoaded =>
       /\ \A f \in FetchIds : ~CalledNow(f)
       /\ hasRatesLoaded'
       /\ currencyRates' = currencyRates
       /\ isOfflineMode => isOfflineMode'

C28_FrozenOnceLoaded == [][C28_Step]_vars
====
